---------------------------- MODULE Spec2Model ----------------------------
(***************************************************************************)
(* Model of the JSON-RPC listener of go-packages-driver-wasm               *)
(* (internal/jsonrpc): the read loop of Listener.ListenStream, the         *)
(* per-request goroutine of Listener.handleRequest, the cancellation       *)
(* registry requestCanceler, and the envelope and error model of types.go. *)
(***************************************************************************)
EXTENDS Integers, Sequences, FiniteSets, TLC

(***************************************************************************)
(* Bounds of the model.                                                    *)
(***************************************************************************)
\* lines the client sends at most (reads of the loop)
MaxReads == 3
\* requests dispatched to a goroutine at most
MaxTasks == 2
\* request ids the client uses: 1..MaxId (0 is the notification sentinel)
MaxId == 2
\* registry harness: registrations and concurrent callers
MaxRegs == 2
MaxCalls == 5

(***************************************************************************)
(* types.go: error codes, Error, Response, WrapError.                      *)
(***************************************************************************)
ErrorCodeParseError == -32700
ErrorCodeInvalidRequest == -32600
ErrorCodeMethodNotFound == -32601
ErrorCodeInvalidParams == -32602
ErrorCodeInternalError == -32603

NotificationCancelRequest == "$/cancelRequest"

\* A Go error value: nil, a plain error, or a *jsonrpc.Error.
NilErr == [kind |-> "nil", code |-> 0, message |-> ""]
PlainErr(msg) == [kind |-> "plain", code |-> 0, message |-> msg]

\* ErrorCode.Errorf / NewError: an *Error with the code and the message.
NewError(code, msg) == [kind |-> "Error", code |-> code, message |-> msg]

\* fmt's %q of a method name (the names of the model need no escaping inside).
Quoted(s) == "\"" \o s \o "\""

\* WrapError: errors.As finds an *Error and returns it; anything else is wrapped
\* as InternalError with the error's text.
WrapErrorAlwaysInternal(e) == NewError(ErrorCodeInternalError, e.message)
WrapError(e) ==
    IF e.kind = "Error" THEN e ELSE NewError(ErrorCodeInternalError, e.message)

\* Result values a handler hands back as `any`: the untyped nil of the adapter's
\* decode failure, a nil *TResponse (typed nil), or a value.
ResultNil == "nil"
ResultTypedNil == "typednil"
ResultPong == "pong"

\* Error.AsResponse
AsResponseZero(e, reqID) == [id |-> 0, result |-> ResultNil, error |-> e]
AsResponse(e, reqID) == [id |-> reqID, result |-> ResultNil, error |-> e]

(***************************************************************************)
(* encoding/json of a Response, as serveResponse's encoder produces it.    *)
(***************************************************************************)
Methods == {"ping", "nope", NotificationCancelRequest}

\* The escaping of a JSON string: the quotes of a %q-formatted name.
JSONEscape(s) ==
    IF \E mt \in Methods : s = "method not found: " \o Quoted(mt)
    THEN LET mt == CHOOSE x \in Methods : s = "method not found: " \o Quoted(x)
         IN  "method not found: \\\"" \o mt \o "\\\""
    ELSE IF \E mt \in Methods : s = "unsupported notification " \o Quoted(mt)
    THEN LET mt == CHOOSE x \in Methods : s = "unsupported notification " \o Quoted(x)
         IN  "unsupported notification \\\"" \o mt \o "\\\""
    ELSE s

MarshalResult(r) ==
    IF r = ResultPong THEN "{\"pong\":true}" ELSE "null"

MarshalError(e) ==
    "{\"code\":" \o ToString(e.code) \o ",\"message\":\"" \o JSONEscape(e.message) \o "\"}"

\* json.Encoder.Encode: the object (omitempty drops a nil result and a nil
\* error) followed by a newline.
Encode(rsp) ==
    "{\"id\":" \o ToString(rsp.id)
      \o (IF rsp.result = ResultNil THEN "" ELSE ",\"result\":" \o MarshalResult(rsp.result))
      \o (IF rsp.error.kind = "nil" THEN "" ELSE ",\"error\":" \o MarshalError(rsp.error))
      \o "}" \o "\n"

\* make([]byte, 1024): the length of the slice bytes.NewBuffer is given.
BufferInitLen == 1024

\* serveResponse: the bytes handed to dst.Write, as the run of zero bytes the
\* buffer starts with followed by the text the encoder appended.
serveResponse(rsp) == [zeros |-> BufferInitLen, text |-> Encode(rsp)]

\* serveError
serveError(reqID, e) == serveResponse(AsResponse(e, reqID))

(***************************************************************************)
(* requestCanceler: the sync.Map from request id to cancel action. A cancel *)
(* action is named by the number of the registration that created it.      *)
(***************************************************************************)
Delete(mm, id) == [k \in DOMAIN mm \ {id} |-> mm[k]]

\* sync.Map.LoadAndDelete
LoadAndDeleteKeeps(mm, id) ==
    [ok |-> id \in DOMAIN mm, v |-> IF id \in DOMAIN mm THEN mm[id] ELSE 0, m |-> mm]
LoadAndDelete(mm, id) ==
    [ok |-> id \in DOMAIN mm,
     v  |-> IF id \in DOMAIN mm THEN mm[id] ELSE 0,
     m  |-> Delete(mm, id)]

\* addRequest: sync.Map.Store
addRequest(mm, id, fn) == [k \in DOMAIN mm \cup {id} |-> IF k = id THEN fn ELSE mm[k]]

\* finishRequest: removes the entry, returns whether there was one.
finishRequest(mm, id) ==
    LET r == LoadAndDelete(mm, id) IN [ok |-> r.ok, m |-> r.m]

\* cancelRequest: removes the entry and names the action to invoke (none if absent).
cancelRequest(mm, id) ==
    LET r == LoadAndDelete(mm, id) IN [m |-> r.m, call |-> IF r.ok THEN {r.v} ELSE {}]

\* cancelAll's Range: every action stored at the time.
RangeActions(mm) == {mm[k] : k \in DOMAIN mm}

EmptyMap == [k \in {} |-> 0]


(***************************************************************************)
(* The lines the client puts on the wire, and their decoding.              *)
(***************************************************************************)
\* A line: nothing read (only with an error), whitespace only, text that is not
\* a JSON envelope, or an envelope {"id":..,"method":..,"params":..}.
Line(kind, id, method, params) ==
    [kind |-> kind, id |-> id, method |-> method, params |-> params]
NoData == Line("none", 0, "", "")
Blank == Line("blank", 0, "", "")
Garbage == Line("garbage", 0, "", "")
Envelope(id, method, params) == Line("envelope", id, method, params)

\* Raw params of the model: JSON null, small integers, a string.
IntParams == {ToString(i) : i \in 0..MaxId}
Params == {"null", "\"x\""} \cup IntParams

Lines ==
    {Blank, Garbage}
      \cup {Envelope(i, "ping", "null") : i \in 1..MaxId}
      \cup {Envelope(1, "ping", "1"), Envelope(1, "nope", "null")}
      \cup {Envelope(0, NotificationCancelRequest, p) : p \in Params \ {"null"}}
      \cup {Envelope(0, "ping", "null")}

\* The data a failing ReadBytes may return: none, or an unterminated last line.
ErrLines == {NoData, Blank, Envelope(1, "ping", "null")}

\* What ReadBytes returns beside the data.
ReadErrs == {"nil", "EOF", "ErrClosed", "other"}

\* json.Unmarshal(data, &req) of handleRequest
UnmarshalRequest(ln) ==
    [ok |-> ln.kind = "envelope", id |-> ln.id, method |-> ln.method, params |-> ln.params]

\* json.Unmarshal(req.Params, &reqID) of handleNotification: an integer decodes,
\* null leaves reqID at 0, anything else fails.
UnmarshalInt(p) ==
    IF p \in IntParams
    THEN [ok |-> TRUE, v |-> CHOOSE i \in 0..MaxId : ToString(i) = p]
    ELSE [ok |-> p = "null", v |-> 0]

\* json.Unmarshal(params, &req) of the typed adapter (TRequest a struct): null
\* and objects decode, a number or a string does not.
UnmarshalParams(p) == p \in {"null", "{}"}

\* The handler table NewListener is given.
Handlers == {"ping"}

(***************************************************************************)
(* State.                                                                  *)
(***************************************************************************)
VARIABLES
    loop,      \* ListenStream: "read", "cancelAll", "cancelFn", "returned"
    ret,       \* ListenStream's result: "none" (running), "nil", "readFailed"
    data,      \* the line the last ReadBytes returned
    nread,     \* number of ReadBytes calls so far
    ctxDone,   \* the context given to ListenStream is cancelled
    connDone,  \* connCtx's own cancelFn was called
    closed,    \* the watcher closed conn
    m,         \* l.canceler.m: request id -> cancel action
    fired,     \* per cancel action: times the registry invoked it
    tasks,     \* the goroutines handleRequest started, in dispatch order
    out,       \* the writes to conn, in order
    rc         \* the registry's callers in the registry-only specification

vars == <<loop, ret, data, nread, ctxDone, connDone, closed, m, fired, tasks, out, rc>>

listener == <<loop, ret, data, nread, ctxDone, connDone, closed, tasks, out>>

\* connCtx.Err() != nil: connCtx is derived from ctx.
ConnCtxErr == ctxDone \/ connDone

\* reqCtx.Err() != nil for goroutine t: reqCtx is derived from connCtx.
ReqCtxErr(t) == tasks[t].reqDone \/ ConnCtxErr

TaskIds == 1..Len(tasks)

\* One write to conn: who wrote (0 the read loop, t a goroutine), the Response,
\* and the bytes.
Written(by, rsp, bytes) == [by |-> by, rsp |-> rsp, bytes |-> bytes]

RcInit == [calls |-> 0, pend |-> {}, inRange |-> FALSE,
           last |-> [op |-> "none", id |-> 0, ok |-> FALSE], hist |-> [i \in 1..MaxId |-> "none"]]

Init ==
    /\ loop = "read"
    /\ ret = "none"
    /\ data = NoData
    /\ nread = 0
    /\ ctxDone = FALSE
    /\ connDone = FALSE
    /\ closed = FALSE
    /\ m = EmptyMap
    /\ fired = <<>>
    /\ tasks = <<>>
    /\ out = <<>>
    /\ rc = RcInit

(***************************************************************************)
(* Listener.handleRequest and handleNotification, run by the read loop.    *)
(***************************************************************************)
\* handleNotification: the error it returns and the id it cancels (0: none).
handleNotificationZeroOk(req) ==
    IF req.method # NotificationCancelRequest
    THEN [err |-> NewError(ErrorCodeMethodNotFound,
                           "unsupported notification " \o Quoted(req.method)),
          cancel |-> 0]
    ELSE LET d == UnmarshalInt(req.params) IN
         IF ~d.ok
         THEN [err |-> NewError(ErrorCodeInvalidParams, "cannot read params: invalid"),
               cancel |-> 0]
         ELSE [err |-> NilErr, cancel |-> d.v]
handleNotification(req) ==
    IF req.method # NotificationCancelRequest
    THEN [err |-> NewError(ErrorCodeMethodNotFound,
                           "unsupported notification " \o Quoted(req.method)),
          cancel |-> 0]
    ELSE LET d == UnmarshalInt(req.params) IN
         IF ~d.ok
         THEN [err |-> NewError(ErrorCodeInvalidParams, "cannot read params: invalid"),
               cancel |-> 0]
         ELSE IF d.v = 0
         THEN [err |-> NewError(ErrorCodeInvalidParams, "missing request ID"), cancel |-> 0]
         ELSE [err |-> NilErr, cancel |-> d.v]

\* handleRequest, req.ID == 0: a failed notification is answered with a response
\* addressed to id 0, a handled one with nothing.
NotificationReplyAlways(e) == <<AsResponse(WrapError(e), 0)>>
NotificationReply(e) ==
    IF e.kind # "nil" THEN <<AsResponse(WrapError(e), 0)>> ELSE <<>>

\* The goroutine of a dispatched request, about to call the handler. connErr
\* records whether connCtx was cancelled when the handler call ended.
NewTask(req) ==
    [id |-> req.id, method |-> req.method, params |-> req.params,
     pc |-> "handler", res |-> ResultNil, err |-> NilErr, panic |-> FALSE,
     reqDone |-> FALSE, notified |-> FALSE, connErr |-> FALSE]

\* Invoking the cancel actions in S: each cancels its goroutine's reqCtx.
Invoke(ts, S, notif) ==
    [t \in DOMAIN ts |->
        IF t \in S
        THEN [ts[t] EXCEPT !.reqDone = TRUE,
                           !.notified = @ \/ (notif /\ ts[t].pc = "handler")]
        ELSE ts[t]]

Count(f, S) == [t \in DOMAIN f |-> IF t \in S THEN f[t] + 1 ELSE f[t]]

\* handleRequest(connCtx, conn, trimmed): the synchronous part, as the new values
\* of the registry, the goroutines, the invocation counts and the output.
handleRequest(ln) ==
    LET req == UnmarshalRequest(ln)
        keep == [m |-> m, tasks |-> tasks, fired |-> fired, out |-> out]
        write(rsp) == Append(out, Written(0, rsp, serveResponse(rsp)))
        writeAll(rs) == out \o [i \in 1..Len(rs) |-> Written(0, rs[i], serveResponse(rs[i]))]
    IN
    IF ~req.ok
    THEN [keep EXCEPT !.out = Append(out, Written(0,
              AsResponse(NewError(ErrorCodeParseError, "invalid character"), 0),
              serveError(0, NewError(ErrorCodeParseError, "invalid character"))))]
    ELSE IF req.id = 0
    THEN LET n == handleNotification(req) IN
         IF n.err.kind # "nil"
         THEN [keep EXCEPT !.out = writeAll(NotificationReply(n.err))]
         ELSE LET c == cancelRequest(m, n.cancel) IN
              [keep EXCEPT !.m = c.m,
                           !.tasks = Invoke(tasks, c.call, TRUE),
                           !.fired = Count(fired, c.call),
                           !.out = writeAll(NotificationReply(n.err))]
    ELSE IF req.method \notin Handlers
    THEN [keep EXCEPT !.out = write(AsResponse(
              NewError(ErrorCodeMethodNotFound, "method not found: " \o Quoted(req.method)),
              req.id))]
    ELSE [keep EXCEPT !.m = addRequest(m, req.id, Len(tasks) + 1),
                      !.tasks = Append(tasks, NewTask(req)),
                      !.fired = Append(fired, 0)]

\* Whether handleRequest would start a goroutine for the line.
Dispatches(ln) ==
    LET req == UnmarshalRequest(ln) IN req.ok /\ req.id # 0 /\ req.method \in Handlers

(***************************************************************************)
(* Listener.ListenStream.                                                  *)
(***************************************************************************)
\* Whether the iteration that read (ln, e) leaves the loop: a blank line
\* continues whatever the error, otherwise any error ends the loop.
LoopEndsOnBadLine(ln, e) == ln.kind = "garbage" \/ (ln.kind # "blank" /\ e # "nil")
LoopEnds(ln, e) == ln.kind # "blank" /\ e # "nil"

\* What ListenStream returns for read error e.
LoopResultIgnoresCtx(e) ==
    IF e \in {"EOF", "ErrClosed"} THEN "nil" ELSE "readFailed"
LoopResult(e) ==
    IF e \in {"EOF", "ErrClosed"} \/ ConnCtxErr THEN "nil" ELSE "readFailed"

\* One iteration of the read loop: ReadBytes returns (ln, e); a non-blank line
\* is handled; a blank one continues; then the error ends the loop.
ReadLoop(ln, e) ==
    /\ loop = "read"
    /\ nread < MaxReads
    /\ (e = "nil") => (ln \in Lines)
    /\ (e # "nil") => (ln \in ErrLines)
    /\ closed => (e \in {"ErrClosed", "other"})
    /\ ~closed => (e # "ErrClosed")
    /\ Dispatches(ln) => (Len(tasks) < MaxTasks)
    /\ nread' = nread + 1
    /\ data' = ln
    /\ LET h == IF ln.kind \in {"none", "blank"}
                THEN [m |-> m, tasks |-> tasks, fired |-> fired, out |-> out]
                ELSE handleRequest(ln)
       IN  /\ m' = h.m
           /\ tasks' = h.tasks
           /\ fired' = h.fired
           /\ out' = h.out
    /\ IF LoopEnds(ln, e)
       THEN loop' = "cancelAll" /\ ret' = LoopResult(e)
       ELSE loop' = "read" /\ ret' = ret
    /\ UNCHANGED <<ctxDone, connDone, closed, rc>>

\* The iteration whose ReadBytes finds conn closed and nothing buffered: no
\* data, an error, and the loop ends. It needs no line of the client.
ReadClosed(e) ==
    /\ loop = "read"
    /\ closed
    /\ e \in {"ErrClosed", "other"}
    /\ data' = NoData
    /\ loop' = "cancelAll"
    /\ ret' = LoopResult(e)
    /\ UNCHANGED <<nread, ctxDone, connDone, closed, m, fired, tasks, out, rc>>

\* defer l.canceler.cancelAll(): Range invokes every stored action and Clear
\* empties the map. The loop has ended, so nothing is stored in between.
DeferCancelAll ==
    /\ loop = "cancelAll"
    /\ loop' = "cancelFn"
    /\ tasks' = Invoke(tasks, RangeActions(m), FALSE)
    /\ fired' = Count(fired, RangeActions(m))
    /\ m' = EmptyMap
    /\ UNCHANGED <<ret, data, nread, ctxDone, connDone, closed, out, rc>>

\* defer cancelFn(): connCtx is cancelled and ListenStream returns.
DeferCancelFn ==
    /\ loop = "cancelFn"
    /\ loop' = "returned"
    /\ connDone' = TRUE
    /\ UNCHANGED <<ret, data, nread, ctxDone, closed, m, fired, tasks, out, rc>>

\* The caller cancels the context given to ListenStream (the interrupt signal).
CtxCancel ==
    /\ ~ctxDone
    /\ ctxDone' = TRUE
    /\ UNCHANGED <<loop, ret, data, nread, connDone, closed, m, fired, tasks, out, rc>>

\* The watcher goroutine: <-ctx.Done(); conn.Close()
WatcherClose ==
    /\ ctxDone
    /\ ~closed
    /\ closed' = TRUE
    /\ UNCHANGED <<loop, ret, data, nread, ctxDone, connDone, m, fired, tasks, out, rc>>

(***************************************************************************)
(* The goroutine handleRequest starts for a dispatched request.            *)
(***************************************************************************)
\* What the business function may hand back: a result, or a nil *TResponse
\* with a plain failure (ctx.Err() among them) or with a protocol Error.
BusinessOutcomes ==
    {[res |-> ResultPong, err |-> NilErr],
     [res |-> ResultTypedNil, err |-> PlainErr("failed")],
     [res |-> ResultTypedNil, err |-> NewError(ErrorCodeInvalidParams, "bad params")]}

\* if ctx.Err() != nil { return } (the deferred calls follow), else
\* serveResponse is entered. Nothing but local code lies between the end of the
\* handler call and this test, so the two are one step.
CheckSkipsWhenRequestCancelled(t) == IF ReqCtxErr(t) THEN "finish" ELSE "writing"
Check(t) == IF ConnCtxErr THEN "finish" ELSE "writing"

\* typedHandler.HandleRequest, decode failure: ParseError, handleFunc not called.
HandlerDecodeInvokes(t) ==
    /\ t \in TaskIds
    /\ tasks[t].pc = "handler"
    /\ ~UnmarshalParams(tasks[t].params)
    /\ tasks' = [tasks EXCEPT ![t].pc = Check(t),
                              ![t].connErr = ConnCtxErr,
                              ![t].res = ResultPong,
                              ![t].err = NilErr]
    /\ UNCHANGED <<loop, ret, data, nread, ctxDone, connDone, closed, m, fired, out, rc>>
HandlerDecodeFails(t) ==
    /\ t \in TaskIds
    /\ tasks[t].pc = "handler"
    /\ ~UnmarshalParams(tasks[t].params)
    /\ tasks' = [tasks EXCEPT ![t].pc = Check(t),
                              ![t].connErr = ConnCtxErr,
                              ![t].res = ResultNil,
                              ![t].err = NewError(ErrorCodeParseError, "cannot unmarshal")]
    /\ UNCHANGED <<loop, ret, data, nread, ctxDone, connDone, closed, m, fired, out, rc>>

\* typedHandler.HandleRequest: handleFunc returns o.
HandlerReturns(t, o) ==
    /\ t \in TaskIds
    /\ tasks[t].pc = "handler"
    /\ UnmarshalParams(tasks[t].params)
    /\ o \in BusinessOutcomes
    /\ tasks' = [tasks EXCEPT ![t].pc = Check(t),
                              ![t].connErr = ConnCtxErr,
                              ![t].res = o.res,
                              ![t].err = o.err]
    /\ UNCHANGED <<loop, ret, data, nread, ctxDone, connDone, closed, m, fired, out, rc>>

\* handleFunc panics: the goroutine unwinds into its deferred calls.
HandlerPanics(t) ==
    /\ t \in TaskIds
    /\ tasks[t].pc = "handler"
    /\ UnmarshalParams(tasks[t].params)
    /\ tasks' = [tasks EXCEPT ![t].pc = "finish",
                              ![t].connErr = ConnCtxErr,
                              ![t].panic = TRUE]
    /\ UNCHANGED <<loop, ret, data, nread, ctxDone, connDone, closed, m, fired, out, rc>>

\* rsp as the goroutine builds it: the result, and the wrapped failure if any.
TaskResponse(t) ==
    [id     |-> tasks[t].id,
     result |-> tasks[t].res,
     error  |-> IF tasks[t].err.kind = "nil" THEN NilErr ELSE WrapError(tasks[t].err)]

\* serveResponse(w, rsp): dst.Write completes.
TaskWriteInOrder(t) ==
    /\ t \in TaskIds
    /\ tasks[t].pc = "writing"
    /\ \A s \in 1..(t - 1) : tasks[s].pc = "done"
    /\ out' = Append(out, Written(t, TaskResponse(t), serveResponse(TaskResponse(t))))
    /\ tasks' = [tasks EXCEPT ![t].pc = "finish"]
    /\ UNCHANGED <<loop, ret, data, nread, ctxDone, connDone, closed, m, fired, rc>>
TaskWrite(t) ==
    /\ t \in TaskIds
    /\ tasks[t].pc = "writing"
    /\ out' = Append(out, Written(t, TaskResponse(t), serveResponse(TaskResponse(t))))
    /\ tasks' = [tasks EXCEPT ![t].pc = "finish"]
    /\ UNCHANGED <<loop, ret, data, nread, ctxDone, connDone, closed, m, fired, rc>>

\* defer l.canceler.finishRequest(req.ID); defer cancelFn(), which only the
\* goroutine's own, ended handler call could observe; then the recover() of the
\* first deferred function. The goroutine's rsp, out and err are dead by now.
TaskFinish(t) ==
    /\ t \in TaskIds
    /\ tasks[t].pc = "finish"
    /\ m' = finishRequest(m, tasks[t].id).m
    /\ tasks' = [tasks EXCEPT ![t].reqDone = TRUE,
                              ![t].res = ResultNil,
                              ![t].err = NilErr,
                              ![t].pc = IF tasks[t].panic THEN "pwriting" ELSE "done"]
    /\ UNCHANGED <<loop, ret, data, nread, ctxDone, connDone, closed, fired, out, rc>>

\* recover() != nil: serveError(w, req.ID, ErrorCodeInternalError.Errorf("%s", r))
TaskRecoverSilent(t) ==
    /\ t \in TaskIds
    /\ tasks[t].pc = "pwriting"
    /\ tasks' = [tasks EXCEPT ![t].pc = "done"]
    /\ UNCHANGED <<loop, ret, data, nread, ctxDone, connDone, closed, m, fired, out, rc>>
TaskRecoverWrite(t) ==
    /\ t \in TaskIds
    /\ tasks[t].pc = "pwriting"
    /\ LET e == NewError(ErrorCodeInternalError, "panic") IN
       out' = Append(out, Written(t, AsResponse(e, tasks[t].id),
                                  serveError(tasks[t].id, e)))
    /\ tasks' = [tasks EXCEPT ![t].pc = "done"]
    /\ UNCHANGED <<loop, ret, data, nread, ctxDone, connDone, closed, m, fired, rc>>

\* The goroutine's steps once the handler call has ended.
TaskStep(t) ==
    TaskWrite(t) \/ TaskFinish(t) \/ TaskRecoverWrite(t)

(***************************************************************************)
(* The registry on its own: callers invoke addRequest, finishRequest,      *)
(* cancelRequest and cancelAll in any order and interleaving.  rc.hist     *)
(* remembers, per id, whether a finishRequest followed the last addRequest.*)
(***************************************************************************)
RcCalled(op, id, ok) ==
    [rc EXCEPT !.calls = @ + 1, !.last = [op |-> op, id |-> id, ok |-> ok]]

\* addRequest(id, cancelFn) with a fresh cancel action
RcAdd(id) ==
    /\ rc.calls < MaxCalls
    /\ Len(fired) < MaxRegs
    /\ m' = addRequest(m, id, Len(fired) + 1)
    /\ fired' = Append(fired, 0)
    /\ rc' = [RcCalled("add", id, TRUE) EXCEPT !.hist[id] = "added"]
    /\ UNCHANGED listener

\* finishRequest(id)
RcFinish(id) ==
    /\ rc.calls < MaxCalls
    /\ LET r == finishRequest(m, id) IN
       /\ m' = r.m
       /\ rc' = [RcCalled("finish", id, r.ok) EXCEPT
                    !.hist[id] = IF @ = "none" THEN "none" ELSE "finished"]
    /\ UNCHANGED <<fired, listener>>

\* cancelRequest(id): LoadAndDelete ...
RcCancelLoad(id) ==
    /\ rc.calls < MaxCalls
    /\ LET c == cancelRequest(m, id) IN
       /\ m' = c.m
       /\ rc' = [RcCalled("cancel", id, c.call # {}) EXCEPT !.pend = @ \cup c.call]
    /\ UNCHANGED <<fired, listener>>

\* ... then cancelFn()
RcCancelInvoke(fn) ==
    /\ fn \in rc.pend
    /\ fired' = Count(fired, {fn})
    /\ rc' = [rc EXCEPT !.pend = @ \ {fn}]
    /\ UNCHANGED <<m, listener>>

\* cancelAll(): Range invokes every stored action ...
RcCancelAllRange ==
    /\ rc.calls < MaxCalls
    /\ ~rc.inRange
    /\ fired' = Count(fired, RangeActions(m))
    /\ rc' = [RcCalled("cancelAll", 0, TRUE) EXCEPT !.inRange = TRUE]
    /\ UNCHANGED <<m, listener>>

\* ... then Clear empties the map.
RcCancelAllClear ==
    /\ rc.inRange
    /\ m' = EmptyMap
    /\ rc' = [rc EXCEPT !.inRange = FALSE]
    /\ UNCHANGED <<fired, listener>>

RcNext ==
    \/ \E id \in 1..MaxId : RcAdd(id)
    \/ \E id \in 1..MaxId : RcFinish(id)
    \/ \E id \in 1..MaxId : RcCancelLoad(id)
    \/ \E fn \in 1..MaxRegs : RcCancelInvoke(fn)
    \/ RcCancelAllRange
    \/ RcCancelAllClear

(***************************************************************************)
(* Specifications.                                                         *)
(***************************************************************************)
\* Everything but the client: the deferred calls of ListenStream, the caller's
\* cancellation, the watcher and the goroutines.
Background ==
    \/ DeferCancelAll
    \/ DeferCancelFn
    \/ CtxCancel
    \/ WatcherClose
    \/ \E t \in 1..MaxTasks : HandlerDecodeFails(t)
    \/ \E t \in 1..MaxTasks : \E o \in BusinessOutcomes : HandlerReturns(t, o)
    \/ \E t \in 1..MaxTasks : HandlerPanics(t)
    \/ \E t \in 1..MaxTasks : TaskStep(t)

Next ==
    \/ \E ln \in Lines \cup {NoData}, e \in ReadErrs : ReadLoop(ln, e)
    \/ Background

Spec == Init /\ [][Next]_vars

\* The lines that start a goroutine or cancel one.
LiveLines == {ln \in Lines : Dispatches(ln)} \cup {Envelope(0, NotificationCancelRequest, "1")}

FairNext ==
    \/ \E ln \in LiveLines \cup {NoData}, e \in ReadErrs : ReadLoop(ln, e)
    \/ Background

\* The Go scheduler runs every goroutine that can run: the steps of a goroutine
\* after its handler call, the deferred calls of ListenStream and the watcher.
\* A handler may never return and the client may never send: no fairness there.
\* The client of this specification sends requests and cancellations only.
FairSpec ==
    /\ Init /\ [][FairNext]_vars
    /\ \A t \in 1..MaxTasks : WF_vars(TaskStep(t))
    /\ WF_vars(DeferCancelAll \/ DeferCancelFn)
    /\ WF_vars(WatcherClose)

ShutdownNext ==
    \/ FairNext
    \/ \E e \in ReadErrs : ReadClosed(e)

\* Shutdown: the watcher goroutine runs, a read of the closed conn returns, and
\* the deferred calls of ListenStream run.
ShutdownSpec ==
    /\ Init /\ [][ShutdownNext]_vars
    /\ WF_vars(WatcherClose)
    /\ WF_vars(\E e \in ReadErrs : ReadClosed(e))
    /\ WF_vars(DeferCancelAll \/ DeferCancelFn)

\* The registry under arbitrary callers.
RegistrySpec == Init /\ [][RcNext]_vars

(***************************************************************************)
(* Properties.                                                             *)
(***************************************************************************)
\* The positions in out of the writes of goroutine t.
Responses(t) == {i \in 1..Len(out) : out[i].by = t}

CancelLine(n) == Envelope(0, NotificationCancelRequest, ToString(n))

\* C1: every dispatched request gets at most one response, addressed to the
\* request's id; a goroutine that ended without writing found the connection
\* context cancelled; and once its handler call has ended, the goroutine
\* eventually ends (so the response, if any, is eventually written).
C1_OneResponsePerRequest ==
    /\ [](\A t \in TaskIds :
            /\ Cardinality(Responses(t)) <= 1
            /\ \A i \in Responses(t) : out[i].rsp.id = tasks[t].id
            /\ (tasks[t].pc = "done" /\ Responses(t) = {}) => ConnCtxErr)
    /\ \A t \in 1..MaxTasks :
            (t \in TaskIds /\ tasks[t].pc # "handler") ~> (t \in TaskIds /\ tasks[t].pc = "done")

\* C1 witness: both outcomes, a request answered with its id and a request
\* that ended unanswered after the connection context was cancelled.
C1_Witness ==
    /\ Len(tasks) = 2
    /\ tasks[1].pc = "done" /\ tasks[2].pc = "done"
    /\ Cardinality(Responses(1)) = 1
    /\ Responses(2) = {}
    /\ ConnCtxErr

\* C2: the bytes written for a response are its JSON object and one newline,
\* nothing before or after; the ping example yields {"id":1,"result":{"pong":true}}.
C2_BytesAreTheJSONLine ==
    \A i \in 1..Len(out) :
        /\ out[i].bytes = [zeros |-> 0, text |-> Encode(out[i].rsp)]
        /\ (out[i].rsp = [id |-> 1, result |-> ResultPong, error |-> NilErr])
              => out[i].bytes = [zeros |-> 0, text |-> "{\"id\":1,\"result\":{\"pong\":true}}\n"]

\* C3: handling a cancellation notification for id n cancels the derived
\* context of every dispatched request with id n whose handler has not returned.
C3_CancelReachesHandler ==
    [][\A n \in 1..MaxId : \A e \in ReadErrs :
          ReadLoop(CancelLine(n), e) =>
             \A t \in TaskIds :
                (tasks[t].id = n /\ tasks[t].pc = "handler")
                   => (tasks'[t].reqDone \/ ctxDone' \/ connDone')]_vars

\* C4: a request cancelled by a notification while blocked in its handler (its
\* params decoded, handleFunc running), whose handler then returns without a
\* result, never has a response written: every response of a request so
\* cancelled carries a result.
C4_NoResponseAfterCancel ==
    \A t \in TaskIds :
        (tasks[t].notified /\ UnmarshalParams(tasks[t].params) /\ ~tasks[t].panic)
           => \A i \in Responses(t) : out[i].rsp.result = ResultPong

\* C5: a cancellation notification for an id without a registry entry writes
\* nothing, invokes no cancel action, leaves the registry (and every goroutine)
\* unchanged, and the loop reads on.
C5_CancelUnknownIsNoop ==
    [][\A n \in 1..MaxId : \A e \in ReadErrs :
          (ReadLoop(CancelLine(n), e) /\ n \notin DOMAIN m) =>
             /\ out' = out
             /\ fired' = fired
             /\ m' = m
             /\ tasks' = tasks
             /\ loop' = "read"]_vars

\* C5 witness: the notification for id 1 was the last line read, after the only
\* request with id 1 had finished, and its cancel action was never invoked.
C5_Witness ==
    /\ data = CancelLine(1)
    /\ Len(tasks) = 1
    /\ tasks[1].id = 1
    /\ tasks[1].pc = "done"
    /\ fired[1] = 0
    /\ 1 \notin DOMAIN m
    /\ loop = "read"

\* C6: a request with id # 0 and an unregistered method makes the loop write
\* exactly one MethodNotFound response addressed to its id; no registry entry,
\* no goroutine.
C6_MethodNotFound ==
    [][\A ln \in Lines : \A e \in ReadErrs :
          (ReadLoop(ln, e) /\ ln.kind = "envelope" /\ ln.id # 0 /\ ln.method \notin Handlers) =>
             /\ Len(out') = Len(out) + 1
             /\ SubSeq(out', 1, Len(out)) = out
             /\ out'[Len(out')].by = 0
             /\ out'[Len(out')].rsp.id = ln.id
             /\ out'[Len(out')].rsp.error.kind = "Error"
             /\ out'[Len(out')].rsp.error.code = ErrorCodeMethodNotFound
             /\ m' = m
             /\ tasks' = tasks]_vars

\* C6 witness: the loop has answered {"id":1,"method":"nope"} with -32601.
C6_Witness ==
    /\ data = Envelope(1, "nope", "null")
    /\ Len(out) = 1
    /\ out[1].rsp.id = 1
    /\ out[1].rsp.error.code = ErrorCodeMethodNotFound
    /\ tasks = <<>>
    /\ DOMAIN m = {}

\* C7: a non-blank line that does not decode is answered with one ParseError
\* addressed to id 0, changes no registry entry, and (read without error) leaves
\* the loop reading.
C7_ParseError ==
    [][\A e \in ReadErrs :
          ReadLoop(Garbage, e) =>
             /\ Len(out') = Len(out) + 1
             /\ SubSeq(out', 1, Len(out)) = out
             /\ out'[Len(out')].rsp.id = 0
             /\ out'[Len(out')].rsp.error.code = ErrorCodeParseError
             /\ m' = m
             /\ fired' = fired
             /\ tasks' = tasks
             /\ (e = "nil") => (loop' = "read")]_vars

\* C7 witness: after the ParseError the loop read and dispatched a request, which
\* was served.
C7_Witness ==
    /\ data = Envelope(1, "ping", "null")
    /\ Len(tasks) = 1
    /\ Len(out) = 2
    /\ out[1].by = 0 /\ out[1].rsp.error.code = ErrorCodeParseError
    /\ out[2].by = 1 /\ out[2].rsp.result = ResultPong

\* C8: a goroutine whose handler panicked ends with exactly one InternalError
\* response addressed to its request's id, its cancel action no longer in the
\* registry and its derived context cancelled; and none of its steps touches
\* the read loop.
C8_PanicContained ==
    /\ [](\A t \in TaskIds :
            (tasks[t].panic /\ tasks[t].pc = "done") =>
               /\ Cardinality(Responses(t)) = 1
               /\ \A i \in Responses(t) :
                     /\ out[i].rsp.id = tasks[t].id
                     /\ out[i].rsp.error.code = ErrorCodeInternalError
               /\ t \notin RangeActions(m)
               /\ tasks[t].reqDone)
    /\ [][\A t \in 1..MaxTasks :
            (HandlerPanics(t) \/ (t \in TaskIds /\ tasks[t].panic /\ TaskStep(t)))
               => UNCHANGED <<loop, ret, nread, data>>]_vars

\* C8 witness: the first request panicked and got its InternalError; the loop
\* is still reading and a second request was then answered with its result.
C8_Witness ==
    /\ Len(tasks) = 2
    /\ tasks[1].panic /\ tasks[1].pc = "done"
    /\ tasks[2].pc = "done"
    /\ Len(out) = 2
    /\ out[1].by = 1 /\ out[1].rsp.error.code = ErrorCodeInternalError
    /\ out[2].by = 2 /\ out[2].rsp.result = ResultPong
    /\ loop = "read"

\* A read of the loop is possible.
ReadAny == \E ln \in Lines \cup {NoData}, e \in ReadErrs : ReadLoop(ln, e)

\* C9: while a handler has not returned, the loop can still read (the client
\* has lines left) and every other goroutine whose handler call has ended can
\* take its next step.
C9_StuckHandlerDoesNotStall ==
    \A s \in TaskIds :
        tasks[s].pc = "handler" =>
           /\ (loop = "read" /\ nread < MaxReads) => ENABLED ReadAny
           /\ \A t \in TaskIds \ {s} :
                 tasks[t].pc \notin {"handler", "done"} => ENABLED TaskStep(t)

\* C9 witness: the first request is still in its handler and the second, read
\* after it, has been answered.
C9_Witness ==
    /\ Len(tasks) = 2
    /\ tasks[1].pc = "handler"
    /\ tasks[2].pc = "done"
    /\ Len(out) = 1
    /\ out[1].by = 2
    /\ out[1].rsp.id = tasks[2].id

\* C10: once finishRequest(id) has followed addRequest(id, action), cancelRequest(id)
\* finds no entry (nothing to invoke, registry unchanged) and another
\* finishRequest(id) returns false and changes nothing.
C10_FinishThenCancelNoop ==
    [][\A id \in 1..MaxId :
          rc.hist[id] = "finished" =>
             /\ id \notin DOMAIN m
             /\ RcCancelLoad(id) => (m' = m /\ rc'.pend = rc.pend /\ ~rc'.last.ok)
             /\ RcFinish(id) => (m' = m /\ ~rc'.last.ok)]_vars

\* C10 witness: add, finish, then a cancel that found nothing; the action was
\* never invoked.
C10_Witness ==
    /\ rc.hist[1] = "finished"
    /\ rc.last = [op |-> "cancel", id |-> 1, ok |-> FALSE]
    /\ Len(fired) = 1
    /\ fired[1] = 0
    /\ rc.pend = {}

\* C11: whatever the interleaving of cancelRequest, finishRequest and cancelAll
\* calls, the registry invokes the cancel action of a registration at most once.
C11_InvokedAtMostOnce ==
    \A fn \in 1..Len(fired) : fired[fn] <= 1

\* C12: when cancelAll empties the map, every entry it removes has had its
\* cancel action invoked, also with calls of other tasks between its Range and
\* its Clear.
C12_CancelAllInvokesWhatItRemoves ==
    [][RcCancelAllClear => \A k \in DOMAIN m : fired[m[k]] >= 1]_vars

\* Goroutine t is inside serveResponse: it has passed the test of ctx.Err() (or
\* its recover() has caught a panic) and its dst.Write has not returned yet.
InServeResponse(t) == t \in TaskIds /\ tasks[t].pc \in {"writing", "pwriting"}

\* C13: writes to the stream are mutually exclusive: at most one goroutine is
\* inside serveResponse at any time, and whenever a write to the stream
\* completes (a goroutine's or the read loop's) no other goroutine is inside
\* serveResponse.
C13_WritesMutuallyExclusive ==
    /\ [](Cardinality({t \in 1..MaxTasks : InServeResponse(t)}) <= 1)
    /\ [][Len(out') > Len(out) =>
            \A t \in 1..MaxTasks : InServeResponse(t) => out'[Len(out')].by = t]_vars

\* C14: once the context given to ListenStream is cancelled while the loop
\* reads, the watcher closes conn, the loop ends and ListenStream returns nil;
\* the deferred cancelAll invokes every action still stored, and on return the
\* registry is empty.
C14_ShutdownOnCancel ==
    /\ ctxDone ~> closed
    /\ (ctxDone /\ loop = "read") ~> (loop = "returned" /\ ret = "nil" /\ m = EmptyMap)
    /\ [][(ctxDone /\ loop = "read" /\ loop' # "read") => ret' = "nil"]_vars
    /\ [][DeferCancelAll =>
            \A fn \in RangeActions(m) : fired'[fn] = fired[fn] + 1 /\ tasks'[fn].reqDone]_vars
    /\ [](loop = "returned" => m = EmptyMap)

\* C14 witness: ListenStream returned nil after the watcher closed conn and the
\* read of the closed conn failed; the request still in its handler had its
\* cancel action invoked by cancelAll.
C14_Witness ==
    /\ loop = "returned" /\ ret = "nil"
    /\ ctxDone /\ closed
    /\ data = NoData
    /\ m = EmptyMap
    /\ Len(tasks) = 1
    /\ tasks[1].pc = "handler"
    /\ fired[1] = 1
    /\ tasks[1].reqDone

\* C15: an envelope with id 0 whose method is not $/cancelRequest is answered
\* by the loop with one error response addressed to id 0; a $/cancelRequest
\* whose params are 0 or no integer with one InvalidParams response addressed
\* to id 0; in these cases no cancel action is invoked and the registry and the
\* goroutines are unchanged; a valid cancellation notification writes nothing.
C15_NotificationErrors ==
    [][\A ln \in Lines : \A e \in ReadErrs :
          (ReadLoop(ln, e) /\ ln.kind = "envelope" /\ ln.id = 0) =>
             IF \/ ln.method # NotificationCancelRequest
                \/ ~UnmarshalInt(ln.params).ok
                \/ UnmarshalInt(ln.params).v = 0
             THEN /\ Len(out') = Len(out) + 1
                  /\ SubSeq(out', 1, Len(out)) = out
                  /\ out'[Len(out')].by = 0
                  /\ out'[Len(out')].rsp.id = 0
                  /\ out'[Len(out')].rsp.error.kind = "Error"
                  /\ (ln.method = NotificationCancelRequest)
                        => out'[Len(out')].rsp.error.code = ErrorCodeInvalidParams
                  /\ m' = m
                  /\ fired' = fired
                  /\ tasks' = tasks
             ELSE out' = out]_vars

\* C15 witness: with request 1 in its handler, $/cancelRequest with params 0 was
\* answered with InvalidParams for id 0; the request is still registered and
\* its cancel action was not invoked.
C15_Witness ==
    /\ data = Envelope(0, NotificationCancelRequest, "0")
    /\ Len(out) = 1
    /\ out[1].by = 0
    /\ out[1].rsp.id = 0
    /\ out[1].rsp.error.code = ErrorCodeInvalidParams
    /\ Len(tasks) = 1
    /\ tasks[1].pc = "handler"
    /\ ~tasks[1].reqDone
    /\ fired[1] = 0
    /\ 1 \in DOMAIN m

\* C16: a goroutine whose handler call ended (by return with a result, return
\* with a failure, or panic) when connCtx was already cancelled never writes
\* to the stream.
C16_NoWriteAfterConnCancel ==
    \A t \in TaskIds : tasks[t].connErr => Responses(t) = {}

\* C17: an iteration whose read returns an error ends the loop, whatever data
\* came with the error (a non-blank line is handled once first), and
\* ListenStream's result is nil for EOF and ErrClosed and when connCtx is
\* already cancelled, and the read failure otherwise.
C17_ReadErrorEndsLoop ==
    [][\A ln \in ErrLines : \A e \in ReadErrs \ {"nil"} :
          ReadLoop(ln, e) =>
             /\ loop' = "cancelAll"
             /\ ret' = IF e \in {"EOF", "ErrClosed"} \/ ctxDone \/ connDone
                       THEN "nil" ELSE "readFailed"
             /\ Dispatches(ln) => Len(tasks') = Len(tasks) + 1]_vars

\* Request t is in flight: its goroutine has not run its deferred finishRequest.
InFlight(t) == t \in TaskIds /\ tasks[t].pc \in {"handler", "writing", "finish"}

\* C18: the cancel action of an in-flight request is stored under the request's
\* id until that request completes, the registry invokes the action (explicit
\* cancellation) or the listener's cancelAll has run; and every entry of the
\* registry is the action of an in-flight request with that id.
C18_EntryLivesWithItsRequest ==
    /\ \A t \in TaskIds :
          (InFlight(t) /\ fired[t] = 0 /\ loop \in {"read", "cancelAll"})
             => (tasks[t].id \in DOMAIN m /\ m[tasks[t].id] = t)
    /\ \A k \in DOMAIN m : InFlight(m[k]) /\ tasks[m[k]].id = k

\* C19: the response a goroutine writes after its handler returned a failure
\* is addressed to the request's id and carries the failure itself (same code
\* and message) if it is a protocol Error, and an InternalError with the
\* failure's text otherwise; WrapError leaves the error it produced unchanged.
C19_FailureClassified ==
    [][\A t \in 1..MaxTasks :
          (TaskWrite(t) /\ tasks[t].err.kind # "nil") =>
             LET r == out'[Len(out')].rsp IN
             /\ r.id = tasks[t].id
             /\ r.error.kind = "Error"
             /\ (tasks[t].err.kind = "Error") => (r.error = tasks[t].err)
             /\ (tasks[t].err.kind = "plain") =>
                   /\ r.error.code = ErrorCodeInternalError
                   /\ r.error.message = tasks[t].err.message
             /\ WrapError(r.error) = r.error]_vars

\* C19 witness: two requests failed, one with a protocol Error that kept its
\* code, one with a plain failure answered as InternalError.
C19_Witness ==
    /\ Len(out) = 2
    /\ out[1].by = 1 /\ out[2].by = 2
    /\ out[1].rsp.id = tasks[1].id
    /\ out[1].rsp.error = NewError(ErrorCodeInvalidParams, "bad params")
    /\ out[2].rsp.id = tasks[2].id
    /\ out[2].rsp.error = NewError(ErrorCodeInternalError, "failed")

\* C20: a request with a registered method whose params do not decode into the
\* handler's parameter type ends its handler call with ParseError and without
\* a result of the business function (which is not invoked, so it cannot panic
\* either), and the response written for it is a ParseError addressed to the
\* request's id, which is not 0.
C20_DecodeFailureIsParseError ==
    \A t \in TaskIds :
        ~UnmarshalParams(tasks[t].params) =>
           /\ ~tasks[t].panic
           /\ tasks[t].pc \in {"writing", "finish"} =>
                 /\ tasks[t].res = ResultNil
                 /\ tasks[t].err.kind = "Error"
                 /\ tasks[t].err.code = ErrorCodeParseError
           /\ \A i \in Responses(t) :
                 /\ out[i].rsp.id = tasks[t].id
                 /\ out[i].rsp.id # 0
                 /\ out[i].rsp.result = ResultNil
                 /\ out[i].rsp.error.kind = "Error"
                 /\ out[i].rsp.error.code = ErrorCodeParseError

\* C20 witness: {"id":1,"method":"ping","params":1} was answered with a
\* ParseError addressed to id 1.
C20_Witness ==
    /\ Len(tasks) = 1
    /\ tasks[1].params = "1"
    /\ tasks[1].pc = "done"
    /\ Len(out) = 1
    /\ out[1].by = 1
    /\ out[1].rsp.id = 1
    /\ out[1].rsp.error.code = ErrorCodeParseError
    /\ out[1].bytes.text = "{\"id\":1,\"error\":{\"code\":-32700,\"message\":\"cannot unmarshal\"}}\n"

=============================================================================
